---- MODULE Spec2Model ----
(***************************************************************************)
(* ACA 1095-C builder: the interim eligibility/enrollment table            *)
(* (src/interim_core.py, build_interim_from_excel) and the Line 14/16      *)
(* form filler (src/pdf_filler_core.py, fill_line_codes and friends).      *)
(*                                                                         *)
(* Dates are day numbers counted from 1 January of EpochYear (day 0); the  *)
(* time of day is not modelled (every input is a whole day).  Text that    *)
(* the code inspects character by character (plan codes) is a sequence of  *)
(* one-character strings; text that the code only compares for equality    *)
(* (tiers, roles, month labels, line codes) is a TLA+ string.              *)
(***************************************************************************)
EXTENDS Integers, Sequences, FiniteSets, TLC

VARIABLES
    pc,              \* position of the interim build: "idle" | "ready" | "built"
    year,            \* build_interim_from_excel(year=...)
    exclude_waived,  \* build_interim_from_excel(exclude_waived=...)
    demographic_df,  \* sheet "Emp Demographic" as read (raw cells)
    eligibility_df,  \* sheet "Emp Eligibility" as read (raw cells)
    enrollment_df,   \* sheet "Emp Enrollment" as read (raw cells)
    records,         \* the interim table returned by the build
    fpc,             \* position of the form filler: "idle" | "start" | "line14" | "done"
    field_map,       \* the field map: section name -> (key -> form field name)
    l14,             \* codes_by_month of Line 14 (canonical month -> code)
    l16,             \* codes_by_month of Line 16
    form,            \* the form fields of page 0: field name -> value
    writes,          \* the field updates made so far, in order
    raising,         \* field names on which the PDF writer raises
    gpc,             \* position of PDF generation: "idle" | "single" | "bulk" |
                     \* "single_done" | "bulk_done" (its helpers alone:
                     \* "part1" | "part1_done" | "months" | "months_done")
    flow,            \* the program run: "app" (app.py) | "one_flow" (interim_core.py)
    ids,             \* the employee ids to generate, in order
    summary_df,      \* the monthly summary: [present, columns, rows]
    demo_df,         \* the demographics for Part I: [present, columns, rows]
    plan_start,      \* plan_start_month
    write_fails,     \* employee ids for which writing the PDF out raises
    gi,              \* bulk loop: index in ids of the next employee
    files,           \* the downloads: entries of the ZIP, or the single PDF
    errors,          \* the errors list of the bulk loop (interim_core.py)
    shown,           \* the messages shown, in order
    p1_vals          \* the result of derive_part1_values

vars == <<pc, year, exclude_waived, demographic_df, eligibility_df,
          enrollment_df, records, fpc, field_map, l14, l16, form, writes, raising,
          gpc, flow, ids, summary_df, demo_df, plan_start, write_fails, gi,
          files, errors, shown, p1_vals>>

genVars == <<gpc, flow, ids, summary_df, demo_df, plan_start, write_fails, gi,
             files, errors, shown, p1_vals>>

interimVars == <<pc, year, exclude_waived, demographic_df, eligibility_df,
                 enrollment_df, records>>

fillVars == <<fpc, field_map, l14, l16, form, writes, raising>>

(***************************************************************************)
(* Calendar                                                                *)
(***************************************************************************)

\* The first year the application accepts (number_input min_value); day 0.
EpochYear == 2000

IsLeap(y) == (y % 4 = 0 /\ y % 100 # 0) \/ y % 400 = 0

DaysInMonth(y, m) ==
    IF m = 2 THEN (IF IsLeap(y) THEN 29 ELSE 28)
    ELSE IF m \in {4, 6, 9, 11} THEN 30 ELSE 31

\* Leap years in 1 .. y-1 (proleptic Gregorian count).
LeapsBefore(y) == ((y - 1) \div 4) - ((y - 1) \div 100) + ((y - 1) \div 400)

DaysBeforeYear(y) ==
    365 * (y - EpochYear) + LeapsBefore(y) - LeapsBefore(EpochYear)

\* Days of year y before the first of month m.
DaysBeforeMonth(y, m) ==
    <<0, 31, 59, 90, 120, 151, 181, 212, 243, 273, 304, 334>>[m]
        + (IF m > 2 /\ IsLeap(y) THEN 1 ELSE 0)

\* pd.Timestamp("y-m-d") as a day number.
Timestamp(y, m, d) == DaysBeforeYear(y) + DaysBeforeMonth(y, m) + (d - 1)

\* pandas' "not a time": what a missing cell reads as and what an
\* unparsable cell is coerced to.
NaT == -1

\* A raw cell holding text that is not a date.
BadDate == -2

\* far_future = pd.Timestamp("2262-04-11")
far_future == Timestamp(2262, 4, 11)

\* pd.to_datetime(s, errors="coerce") on one cell.
_safe_to_datetime(c) == IF c >= 0 THEN c ELSE NaT

\* Series.fillna(far_future) on one cell.
\* (Mutation: the end date is left as read.)
fillnaSkipped(c) == c
fillna(c) == IF c = NaT THEN far_future ELSE c

\* Comparisons of pandas timestamps: any comparison with NaT is False.
TsLe(a, b) == a # NaT /\ b # NaT /\ a <= b
TsGe(a, b) == a # NaT /\ b # NaT /\ a >= b

\* months = pd.date_range(f"{year}-01-01", f"{year}-12-31", freq="MS"):
\* the twelve month starts of the year, by month number.
MonthStart(y, m) == Timestamp(y, m, 1)

\* month_start + pd.offsets.MonthEnd(1): from the first day of a month the
\* offset rolls forward to the last day of the same month.
\* (Mutation: February always ends on the 28th.)
MonthEndNoLeap(y, m) ==
    MonthStart(y, m) + (IF m = 2 THEN 28 ELSE DaysInMonth(y, m)) - 1
MonthEnd(y, m) == MonthStart(y, m) + DaysInMonth(y, m) - 1

\* month_start.strftime("%b")
StrftimeB == <<"Jan", "Feb", "Mar", "Apr", "May", "Jun",
               "Jul", "Aug", "Sep", "Oct", "Nov", "Dec">>

(***************************************************************************)
(* Text                                                                    *)
(***************************************************************************)

UpperChars == <<"A", "B", "C", "D", "E", "F", "G", "H", "I", "J", "K", "L", "M",
                "N", "O", "P", "Q", "R", "S", "T", "U", "V", "W", "X", "Y", "Z">>
LowerChars == <<"a", "b", "c", "d", "e", "f", "g", "h", "i", "j", "k", "l", "m",
                "n", "o", "p", "q", "r", "s", "t", "u", "v", "w", "x", "y", "z">>

LowerChar(c) ==
    IF \E k \in DOMAIN UpperChars : UpperChars[k] = c
    THEN LowerChars[CHOOSE k \in DOMAIN UpperChars : UpperChars[k] = c]
    ELSE c

Lower(s) == [k \in DOMAIN s |-> LowerChar(s[k])]

\* sub occurs in s as a contiguous run of characters.
Contains(s, sub) ==
    \E k \in 0 .. (Len(s) - Len(sub)) :
        \A n \in 1 .. Len(sub) : s[k + n] = sub[n]

\* A missing (NaN) text cell.
NaN == <<"<NaN>">>

\* Series.astype(str) on one plan-code cell: NaN becomes the text "nan".
PlanAsStr(c) == IF c = NaN THEN <<"n", "a", "n">> ELSE c

Waive == <<"W", "a", "i", "v", "e">>

\* Series.astype(str).str.contains("Waive", case=False, na=False), one cell.
\* (Mutation: the same test with case=True.)
ContainsWaiveCaseSensitive(c) == Contains(PlanAsStr(c), Waive)
ContainsWaive(c) == Contains(Lower(PlanAsStr(c)), Lower(Waive))

IsSpace(c) == c \in {" ", "\t", "\n"}

\* str.strip()
RECURSIVE LStrip(_)
LStrip(s) == IF s # << >> /\ IsSpace(Head(s)) THEN LStrip(Tail(s)) ELSE s

RECURSIVE RStrip(_)
RStrip(s) ==
    IF s # << >> /\ IsSpace(s[Len(s)]) THEN RStrip(SubSeq(s, 1, Len(s) - 1)) ELSE s

Strip(s) == RStrip(LStrip(s))

\* A missing (NaN) tier cell, and Series.astype(str) on one tier cell.
TierNaN == "<NaN>"
TierAsStr(t) == IF t = TierNaN THEN "nan" ELSE t

(***************************************************************************)
(* build_interim_from_excel                                                *)
(***************************************************************************)

\* Date coercion and open-ended end dates, per table (lines 80-97).
CoerceDemo(df) ==
    [k \in DOMAIN df |->
        [df[k] EXCEPT !.StatusStartDate = _safe_to_datetime(@),
                      !.StatusEndDate = fillna(_safe_to_datetime(@))]]

CoerceElig(df) ==
    [k \in DOMAIN df |->
        [df[k] EXCEPT !.EligibilityStartDate = _safe_to_datetime(@),
                      !.EligibilityEndDate = fillna(_safe_to_datetime(@))]]

CoerceEnr(df) ==
    [k \in DOMAIN df |->
        [df[k] EXCEPT !.EnrollmentStartDate = _safe_to_datetime(@),
                      !.EnrollmentEndDate = fillna(_safe_to_datetime(@))]]

\* Series.fillna("") on one text cell.
TextFillna(c) == IF c = NaN THEN << >> ELSE c

\* Series.str.replace("  ", " ") on one cell: the occurrences of two
\* spaces found from left to right, without overlap, each become one.
RECURSIVE ReplaceDouble(_)
ReplaceDouble(s) ==
    IF Len(s) < 2 THEN s
    ELSE IF s[1] = " " /\ s[2] = " "
         THEN <<" ">> \o ReplaceDouble(SubSeq(s, 3, Len(s)))
         ELSE <<s[1]>> \o ReplaceDouble(Tail(s))

\* emp_df["Name"]   (lines 114-118)
Name(first, middle, last) ==
    Strip(ReplaceDouble(TextFillna(first) \o <<" ">> \o TextFillna(middle)
                        \o <<" ">> \o TextFillna(last)))

\* emp_df: the demographics' columns used by the build, with Name.
emp_df(df) ==
    [k \in DOMAIN df |->
        [EmployeeID |-> df[k].EmployeeID, Role |-> df[k].Role,
         StatusStartDate |-> df[k].StatusStartDate,
         StatusEndDate |-> df[k].StatusEndDate,
         Name |-> Name(df[k].FirstName, df[k].MiddleInitial, df[k].LastName)]]

\* Row labels 1..n of a table, in table order.  A boolean-mask selection
\* df[mask] keeps the labels whose mask is true, in table order (SelectSeq).
Index(df) == [k \in 1 .. Len(df) |-> k]

\* The waived-plan filter (lines 99-107): the labels of the rows kept.
EligKept(df, excl) ==
    LET NotWaived(k) == ~ContainsWaive(df[k].EligiblePlan)
    IN  IF excl THEN SelectSeq(Index(df), NotWaived) ELSE Index(df)

EnrKept(df, excl) ==
    LET NotWaived(k) == ~ContainsWaive(df[k].PlanCode)
    IN  IF excl THEN SelectSeq(Index(df), NotWaived) ELSE Index(df)

\* The month test of one eligibility or enrollment interval (lines 133-134
\* and 138-139).
\* (Mutation: the interval must contain the whole month.)
IntervalTestFullMonth(start, end, month_start, month_end) ==
    TsLe(start, month_start) /\ TsGe(end, month_end)
IntervalTest(start, end, month_start, month_end) ==
    TsLe(start, month_end) /\ TsGe(end, month_start)

\* The month test of the employment status interval (line 127).
StatusTest(start, end, month_start, month_end) ==
    TsLe(start, month_start) /\ TsGe(end, month_end)

Range(s) == {s[k] : k \in DOMAIN s}

YesNo(b) == IF b THEN "Yes" ELSE "No"

PlanA == <<"P", "l", "a", "n", "A">>

\* all_plans == {"PlanA"} and all_tiers.intersection({...})   (line 150)
MinimumValueAnyPlanA(all_plans, all_tiers) ==
    PlanA \in all_plans /\ all_tiers \cap {"EMPFAM", "EMP", "EMPCHILD", "EMPSPOUSE"} # {}
MinimumValue(all_plans, all_tiers) ==
    all_plans = {PlanA} /\ all_tiers \cap {"EMPFAM", "EMP", "EMPCHILD", "EMPSPOUSE"} # {}

\* tiers.intersection({"EMP", "EMPFAM", "EMPSPOUSE"})   (lines 152, 165)
EmployeeTier(tiers) == tiers \cap {"EMP", "EMPFAM", "EMPSPOUSE"} # {}

\* tiers.intersection({"EMPFAM", "EMPSPOUSE"})   (lines 154, 167)
\* (Mutation: the spouse tier alone.)
SpouseTierSpouseOnly(tiers) == "EMPSPOUSE" \in tiers
SpouseTier(tiers) == tiers \cap {"EMPFAM", "EMPSPOUSE"} # {}

\* "EMPFAM" in tiers   (lines 156, 169)
ChildTierWithEmpChild(tiers) == tiers \cap {"EMPFAM", "EMPCHILD"} # {}
ChildTier(tiers) == "EMPFAM" \in tiers

\* The body of the month loop (lines 125-186) for employee row emp of the
\* coerced demographics and month m; elig, enr are the coerced tables and
\* eligIdx, enrIdx the row labels left by the waived filter.  elig_rows and
\* enroll_rows are the loop's local selections, kept in the row as labels.
InterimRow(emp, y, m, elig, eligIdx, enr, enrIdx) ==
    LET month_start == MonthStart(y, m)
        month_end == MonthEnd(y, m)
        employed_full_month ==
            StatusTest(emp.StatusStartDate, emp.StatusEndDate, month_start, month_end)
        is_full_time == emp.Role = "FT" /\ employed_full_month
        is_part_time == emp.Role = "PT" /\ employed_full_month
        EligSel(k) ==
            /\ elig[k].EmployeeID = emp.EmployeeID
            /\ IntervalTest(elig[k].EligibilityStartDate, elig[k].EligibilityEndDate,
                            month_start, month_end)
        EnrSel(k) ==
            /\ enr[k].EmployeeID = emp.EmployeeID
            /\ IntervalTest(enr[k].EnrollmentStartDate, enr[k].EnrollmentEndDate,
                            month_start, month_end)
        elig_rows == SelectSeq(eligIdx, EligSel)
        enroll_rows == SelectSeq(enrIdx, EnrSel)
        all_plans == {PlanAsStr(elig[k].EligiblePlan) : k \in Range(elig_rows)}
        all_tiers == {TierAsStr(elig[k].EligibleTier) : k \in Range(elig_rows)}
        all_tiers_enr ==
            {TierAsStr(enr[k].Tier) :
                k \in {n \in Range(enroll_rows) : enr[n].Tier # TierNaN}}
        has_elig == elig_rows # << >>
        has_enr == enroll_rows # << >>
    IN  [Employee_ID |-> emp.EmployeeID,
         Name |-> emp.Name,
         Month |-> StrftimeB[m],
         Is_Employed_full_month |-> YesNo(employed_full_month),
         Is_full_time_full_month |-> YesNo(is_full_time),
         Is_Part_time_full_month |-> YesNo(is_part_time),
         eligible_mv |-> has_elig /\ MinimumValue(all_plans, all_tiers),
         employee_eligible |-> has_elig /\ EmployeeTier(all_tiers),
         spouse_eligible |-> has_elig /\ SpouseTier(all_tiers),
         child_eligible |-> has_elig /\ ChildTier(all_tiers),
         employee_enrolled |-> has_enr /\ EmployeeTier(all_tiers_enr),
         spouse_enrolled |-> has_enr /\ SpouseTier(all_tiers_enr),
         child_enrolled |-> has_enr /\ ChildTier(all_tiers_enr),
         elig_rows |-> elig_rows,
         enroll_rows |-> enroll_rows]

\* for month_start in months: ... records.append(...)   (lines 124-186)
RECURSIVE MonthLoop(_, _, _, _, _, _, _, _)
MonthLoop(acc, emp, y, m, elig, eligIdx, enr, enrIdx) ==
    IF m > 12 THEN acc
    ELSE MonthLoop(Append(acc, InterimRow(emp, y, m, elig, eligIdx, enr, enrIdx)),
                   emp, y, m + 1, elig, eligIdx, enr, enrIdx)

\* for _, emp in emp_df.iterrows(): ...   (lines 123-186)
RECURSIVE EmpLoop(_, _, _, _, _, _, _, _)
EmpLoop(acc, demo, i, y, elig, eligIdx, enr, enrIdx) ==
    IF i > Len(demo) THEN acc
    ELSE EmpLoop(MonthLoop(acc, demo[i], y, 1, elig, eligIdx, enr, enrIdx),
                 demo, i + 1, y, elig, eligIdx, enr, enrIdx)

\* (Mutation: the loops nested the other way round, months outside.)
RECURSIVE EmpInner(_, _, _, _, _, _, _, _, _)
EmpInner(acc, demo, i, y, m, elig, eligIdx, enr, enrIdx) ==
    IF i > Len(demo) THEN acc
    ELSE EmpInner(Append(acc, InterimRow(demo[i], y, m, elig, eligIdx, enr, enrIdx)),
                  demo, i + 1, y, m, elig, eligIdx, enr, enrIdx)

RECURSIVE MonthOuter(_, _, _, _, _, _, _, _)
MonthOuter(acc, demo, y, m, elig, eligIdx, enr, enrIdx) ==
    IF m > 12 THEN acc
    ELSE MonthOuter(EmpInner(acc, demo, 1, y, m, elig, eligIdx, enr, enrIdx),
                    demo, y, m + 1, elig, eligIdx, enr, enrIdx)

build_interim_months_outside(demo, eligDf, enrDf, y, excl) ==
    MonthOuter(<< >>, emp_df(CoerceDemo(demo)), y, 1,
               CoerceElig(eligDf), EligKept(eligDf, excl),
               CoerceEnr(enrDf), EnrKept(enrDf, excl))

\* build_interim_from_excel(excel_bytes, year, exclude_waived) (lines 64-188)
build_interim_from_excel(demo, eligDf, enrDf, y, excl) ==
    EmpLoop(<< >>, emp_df(CoerceDemo(demo)), 1, y,
            CoerceElig(eligDf), EligKept(eligDf, excl),
            CoerceEnr(enrDf), EnrKept(enrDf, excl))

(***************************************************************************)
(* The form filler: Line 14 and Line 16                                    *)
(***************************************************************************)

MONTHS == <<"Jan", "Feb", "Mar", "Apr", "May", "June",
            "July", "Aug", "Sept", "Oct", "Nov", "Dec">>

\* Python's None as a code or a value.
None == <<"<None>">>

\* The sections line14 and line16 of FIELD_MAP: key -> form field name.
FIELD_MAP_line14 ==
    [all |-> <<"l", "1", "4", "_", "a", "l", "l">>,
     Jan |-> <<"l", "1", "4", "_", "j", "a", "n">>,
     Feb |-> <<"l", "1", "4", "_", "f", "e", "b">>,
     Mar |-> <<"l", "1", "4", "_", "m", "a", "r">>,
     Apr |-> <<"l", "1", "4", "_", "a", "p", "r">>,
     May |-> <<"l", "1", "4", "_", "m", "a", "y">>,
     June |-> <<"l", "1", "4", "_", "j", "u", "n">>,
     July |-> <<"l", "1", "4", "_", "j", "u", "l">>,
     Aug |-> <<"l", "1", "4", "_", "a", "u", "g">>,
     Sept |-> <<"l", "1", "4", "_", "s", "e", "p">>,
     Oct |-> <<"l", "1", "4", "_", "o", "c", "t">>,
     Nov |-> <<"l", "1", "4", "_", "n", "o", "v">>,
     Dec |-> <<"l", "1", "4", "_", "d", "e", "c">>]

FIELD_MAP_line16 ==
    [all |-> <<"l", "1", "6", "_", "a", "l", "l">>,
     Jan |-> <<"l", "1", "6", "_", "j", "a", "n">>,
     Feb |-> <<"l", "1", "6", "_", "f", "e", "b">>,
     Mar |-> <<"l", "1", "6", "_", "m", "a", "r">>,
     Apr |-> <<"l", "1", "6", "_", "a", "p", "r">>,
     May |-> <<"l", "1", "6", "_", "m", "a", "y">>,
     June |-> <<"l", "1", "6", "_", "j", "u", "n">>,
     July |-> <<"l", "1", "6", "_", "j", "u", "l">>,
     Aug |-> <<"l", "1", "6", "_", "a", "u", "g">>,
     Sept |-> <<"l", "1", "6", "_", "s", "e", "p">>,
     Oct |-> <<"l", "1", "6", "_", "o", "c", "t">>,
     Nov |-> <<"l", "1", "6", "_", "n", "o", "v">>,
     Dec |-> <<"l", "1", "6", "_", "d", "e", "c">>]

\* Python truth of a code: None and the empty string are false.
Truthy(v) == v # None /\ v # << >>

\* dict.get(key): None when the key is absent.
Get(d, key) == IF key \in DOMAIN d THEN d[key] ELSE None

\* x or ""
OrEmpty(v) == IF Truthy(v) THEN v ELSE << >>

\* all_12_same(codes_by_month): the code when all twelve months carry one
\* and the same non-blank code, else None.
all_12_same(codes_by_month) ==
    LET vals == [k \in 1 .. 12 |-> Get(codes_by_month, MONTHS[k])]
        NonBlank(v) == Truthy(v) /\ Strip(v) # << >>
        kept == SelectSeq(vals, NonBlank)
    IN  IF Len(kept) = 12 /\ Cardinality(Range(kept)) = 1 THEN kept[1] ELSE None

\* The writer: w.form holds the fields of page 0, w.writes the updates made
\* (each tagged with w.part, the part of the form being filled), w.raising
\* the field names on which update_page_form_field_values raises.  An
\* update of a name that is no field of the page changes nothing.
Update(w, name, value) ==
    [w EXCEPT !.form = IF name \in DOMAIN w.form
                       THEN [w.form EXCEPT ![name] = value] ELSE w.form,
              !.writes = Append(w.writes,
                                [part |-> w.part, field |-> name, value |-> value])]

\* set_field(writer, field_name, value)
\* (Mutation: a failed update is not swallowed; the form is left blank.)
set_field_unguarded(w, field_name, value) ==
    IF field_name = << >> \/ field_name = None \/ value = None THEN w
    ELSE IF field_name \notin w.raising THEN Update(w, field_name, value)
    ELSE [w EXCEPT !.form = [f \in DOMAIN w.form |-> << >>]]
set_field(w, field_name, value) ==
    IF field_name = << >> \/ field_name = None \/ value = None THEN w
    ELSE IF field_name \notin w.raising THEN Update(w, field_name, value)
    ELSE IF Strip(field_name) \notin w.raising THEN Update(w, Strip(field_name), value)
    ELSE w

\* for m in MONTHS: if m in section: set_field(writer, section[m], "")
RECURSIVE ClearMonths(_, _, _)
ClearMonths(w, section, k) ==
    IF k > 12 THEN w
    ELSE ClearMonths(IF MONTHS[k] \in DOMAIN section
                     THEN set_field(w, section[MONTHS[k]], << >>) ELSE w,
                     section, k + 1)

\* for m in MONTHS: if m in section:
\*     set_field(writer, section[m], codes_by_month.get(m) or "")
RECURSIVE WriteMonths(_, _, _, _)
WriteMonths(w, section, codes_by_month, k) ==
    IF k > 12 THEN w
    ELSE WriteMonths(IF MONTHS[k] \in DOMAIN section
                     THEN set_field(w, section[MONTHS[k]],
                                    OrEmpty(Get(codes_by_month, MONTHS[k])))
                     ELSE w,
                     section, codes_by_month, k + 1)

\* fill_line_codes(writer, fieldmap, codes_by_month, which)
\* (Mutation: the month fields keep their codes beside the "all" field.)
fill_line_codes_keeping_months(w, fieldmap, codes_by_month, which) ==
    LET section == IF which \in DOMAIN fieldmap THEN fieldmap[which] ELSE << >>
        same == all_12_same(codes_by_month)
    IN  IF DOMAIN section = {} THEN w
        ELSE IF Truthy(same) /\ "all" \in DOMAIN section
             THEN WriteMonths(set_field(w, section["all"], same),
                              section, codes_by_month, 1)
             ELSE WriteMonths(w, section, codes_by_month, 1)
fill_line_codes(w, fieldmap, codes_by_month, which) ==
    LET section == IF which \in DOMAIN fieldmap THEN fieldmap[which] ELSE << >>
        same == all_12_same(codes_by_month)
    IN  IF DOMAIN section = {} THEN w
        ELSE IF Truthy(same) /\ "all" \in DOMAIN section
             THEN ClearMonths(set_field(w, section["all"], same), section, 1)
             ELSE WriteMonths(w, section, codes_by_month, 1)

(***************************************************************************)
(* The form filler: month labels, Part I and one whole document            *)
(***************************************************************************)

\* The spelling of MONTHS[k], character by character.
MonthText ==
    <<<<"J", "a", "n">>,
      <<"F", "e", "b">>,
      <<"M", "a", "r">>,
      <<"A", "p", "r">>,
      <<"M", "a", "y">>,
      <<"J", "u", "n", "e">>,
      <<"J", "u", "l", "y">>,
      <<"A", "u", "g">>,
      <<"S", "e", "p", "t">>,
      <<"O", "c", "t">>,
      <<"N", "o", "v">>,
      <<"D", "e", "c">>>>

\* MONTH_ALIASES: the pairs <<label, canonical month>>.
\* (Mutation: the canonical months alone, each its own alias.)
MONTH_ALIASES_canonical == {<<MonthText[k], MonthText[k]>> : k \in 1 .. 12}
MONTH_ALIASES ==
    {<<<<"J", "a", "n">>, <<"J", "a", "n">>>>,
     <<<<"J", "a", "n", "u", "a", "r", "y">>, <<"J", "a", "n">>>>,
     <<<<"F", "e", "b">>, <<"F", "e", "b">>>>,
     <<<<"F", "e", "b", "r", "u", "a", "r", "y">>, <<"F", "e", "b">>>>,
     <<<<"M", "a", "r">>, <<"M", "a", "r">>>>,
     <<<<"M", "a", "r", "c", "h">>, <<"M", "a", "r">>>>,
     <<<<"A", "p", "r">>, <<"A", "p", "r">>>>,
     <<<<"A", "p", "r", "i", "l">>, <<"A", "p", "r">>>>,
     <<<<"M", "a", "y">>, <<"M", "a", "y">>>>,
     <<<<"J", "u", "n">>, <<"J", "u", "n", "e">>>>,
     <<<<"J", "u", "n", "e">>, <<"J", "u", "n", "e">>>>,
     <<<<"J", "u", "l">>, <<"J", "u", "l", "y">>>>,
     <<<<"J", "u", "l", "y">>, <<"J", "u", "l", "y">>>>,
     <<<<"A", "u", "g">>, <<"A", "u", "g">>>>,
     <<<<"A", "u", "g", "u", "s", "t">>, <<"A", "u", "g">>>>,
     <<<<"S", "e", "p">>, <<"S", "e", "p", "t">>>>,
     <<<<"S", "e", "p", "t">>, <<"S", "e", "p", "t">>>>,
     <<<<"S", "e", "p", "t", "e", "m", "b", "e", "r">>, <<"S", "e", "p", "t">>>>,
     <<<<"O", "c", "t">>, <<"O", "c", "t">>>>,
     <<<<"O", "c", "t", "o", "b", "e", "r">>, <<"O", "c", "t">>>>,
     <<<<"N", "o", "v">>, <<"N", "o", "v">>>>,
     <<<<"N", "o", "v", "e", "m", "b", "e", "r">>, <<"N", "o", "v">>>>,
     <<<<"D", "e", "c">>, <<"D", "e", "c">>>>,
     <<<<"D", "e", "c", "e", "m", "b", "e", "r">>, <<"D", "e", "c">>>>}

\* month_to_canonical(m): the label stripped, then its alias if it has one.
\* (Mutation: a label without an alias becomes the first month.)
month_to_canonical_defaulting(m) ==
    LET s == Strip(m)
    IN  IF \E a \in MONTH_ALIASES : a[1] = s
        THEN (CHOOSE a \in MONTH_ALIASES : a[1] = s)[2]
        ELSE MonthText[1]
month_to_canonical(m) ==
    LET s == Strip(m)
    IN  IF \E a \in MONTH_ALIASES : a[1] = s
        THEN (CHOOSE a \in MONTH_ALIASES : a[1] = s)[2]
        ELSE s

\* str(x) in MONTHS
InMONTHS(x) == \E k \in 1 .. 12 : MonthText[k] = x

\* MONTHS.index(str(x)) if str(x) in MONTHS else 0
MonthIndex(x) ==
    IF InMONTHS(x) THEN (CHOOSE k \in 1 .. 12 : MonthText[k] = x) - 1 ELSE 0

\* block["Month"] = block["Month"].apply(month_to_canonical)
CanonicalMonths(block) ==
    [k \in DOMAIN block |-> [block[k] EXCEPT !.Month = month_to_canonical(@)]]

\* block.sort_values(["__midx"]): the rows by month index, rows of one
\* index in block order.
RECURSIVE SortByMidx(_, _)
SortByMidx(block, i) ==
    IF i > 11 THEN << >>
    ELSE LET At(r) == MonthIndex(r.Month) = i
         IN  SelectSeq(block, At) \o SortByMidx(block, i + 1)

\* line_dict_from_block(block, col_name): the loop over the rows.
RECURSIVE LineDictLoop(_, _, _, _)
LineDictLoop(out, block, k, col_name) ==
    IF k > Len(block) THEN out
    ELSE LET mo == month_to_canonical(block[k].Month)
         IN  LineDictLoop(IF InMONTHS(mo)
                          THEN [out EXCEPT ![MONTHS[MonthIndex(mo) + 1]] = block[k][col_name]]
                          ELSE out,
                          block, k + 1, col_name)

line_dict_from_block(block, col_name) ==
    LineDictLoop([m \in {MONTHS[k] : k \in 1 .. 12} |-> None], block, 1, col_name)

\* The block of one employee in the monthly summary, canonicalised and
\* sorted (fill_one_employee, lines 161-165).
BlockOf(rows, emp_id) ==
    LET Mine(r) == r.Employee_ID = emp_id IN SelectSeq(rows, Mine)

SortedBlock(block) == SortByMidx(CanonicalMonths(block), 0)

\* The sections part1 and part2 of FIELD_MAP.
FIELD_MAP_part1 ==
    [employee_first |-> <<"p", "1", "_", "e", "m", "p", "_", "f", "i", "r", "s", "t">>,
     employee_middle |-> <<"p", "1", "_", "e", "m", "p", "_", "m", "i", "d", "d", "l", "e">>,
     employee_last |-> <<"p", "1", "_", "e", "m", "p", "_", "l", "a", "s", "t">>,
     employee_ssn |-> <<"p", "1", "_", "e", "m", "p", "_", "s", "s", "n">>,
     employee_addr1 |-> <<"p", "1", "_", "e", "m", "p", "_", "a", "d", "d", "r", "1">>,
     employee_city |-> <<"p", "1", "_", "e", "m", "p", "_", "c", "i", "t", "y">>,
     employee_state |-> <<"p", "1", "_", "e", "m", "p", "_", "s", "t", "a", "t", "e">>,
     employee_zip |-> <<"p", "1", "_", "e", "m", "p", "_", "z", "i", "p">>,
     employee_country |-> <<"p", "1", "_", "e", "m", "p", "_", "c", "o", "u", "n", "t", "r", "y">>,
     employer_name |-> <<"p", "1", "_", "e", "r", "_", "n", "a", "m", "e">>,
     employer_ein |-> <<"p", "1", "_", "e", "r", "_", "e", "i", "n">>,
     employer_addr1 |-> <<"p", "1", "_", "e", "r", "_", "a", "d", "d", "r", "1">>,
     employer_city |-> <<"p", "1", "_", "e", "r", "_", "c", "i", "t", "y">>,
     employer_state |-> <<"p", "1", "_", "e", "r", "_", "s", "t", "a", "t", "e">>,
     employer_zip |-> <<"p", "1", "_", "e", "r", "_", "z", "i", "p">>,
     employer_country |-> <<"p", "1", "_", "e", "r", "_", "c", "o", "u", "n", "t", "r", "y">>,
     employer_phone |-> <<"p", "1", "_", "e", "r", "_", "p", "h", "o", "n", "e">>]

FIELD_MAP_part2 ==
    [plan_start_month |-> <<"p", "2", "_", "p", "l", "a", "n", "_", "s", "t", "a", "r", "t", "_", "m", "o", "n", "t", "h">>]

FIELD_MAP ==
    [line14 |-> FIELD_MAP_line14, line16 |-> FIELD_MAP_line16,
     part1 |-> FIELD_MAP_part1, part2 |-> FIELD_MAP_part2]

\* The keys of derive_part1_values' result, in the order of the dict.
Part1Keys ==
    <<"employee_first",
      "employee_middle",
      "employee_last",
      "employee_ssn",
      "employee_addr1",
      "employee_city",
      "employee_state",
      "employee_zip",
      "employee_country",
      "employer_name",
      "employer_ein",
      "employer_addr1",
      "employer_city",
      "employer_state",
      "employer_zip",
      "employer_country",
      "employer_phone">>

\* colmap: result key -> demographic column.
colmap ==
    [employee_first |-> "FirstName",
     employee_middle |-> "MiddleInitial",
     employee_last |-> "LastName",
     employee_ssn |-> "SSN",
     employee_addr1 |-> "AddressLine1",
     employee_city |-> "City",
     employee_state |-> "State",
     employee_zip |-> "ZipCode",
     employee_country |-> "Country",
     employer_name |-> "EmployerName",
     employer_ein |-> "EIN",
     employer_addr1 |-> "EmployerAddress",
     employer_city |-> "EmployerCity",
     employer_state |-> "EmployerState",
     employer_zip |-> "EmployerZipCode",
     employer_country |-> "EmployerCountry",
     employer_phone |-> "ContactTelephone"]

\* pick(s): s.dropna().astype(str).str.strip(), then the first value left,
\* None when there is none.
pick(s) ==
    LET NotNa(c) == c # NaN
        kept == SelectSeq(s, NotNa)
    IN  IF Len(kept) > 0 THEN Strip(kept[1]) ELSE None

\* str.replace("-", "").replace(" ", "")
RemoveAll(s, chars) == LET Keep(c) == c \notin chars IN SelectSeq(s, Keep)

\* str.split(".")[0]
RECURSIVE BeforeDot(_)
BeforeDot(s) ==
    IF s = << >> \/ Head(s) = "." THEN << >> ELSE <<Head(s)>> \o BeforeDot(Tail(s))

\* derive_part1_values(emp_id, demo_df); demo_df is [present, columns, rows],
\* present = FALSE standing for None; a cell is its text or NaN.
derive_part1_values(emp_id, demo) ==
    LET keys == {Part1Keys[k] : k \in DOMAIN Part1Keys}
        Mine(r) == r.EmployeeID = emp_id
        g == SelectSeq(demo.rows, Mine)
        picked == [tgt \in keys |->
                     IF colmap[tgt] \in demo.columns
                     THEN pick([k \in DOMAIN g |-> g[k][colmap[tgt]]]) ELSE None]
        ssn == [picked EXCEPT !["employee_ssn"] =
                   IF Truthy(@) THEN RemoveAll(@, {"-", " "}) ELSE @]
        Zip(v) == IF v # None THEN BeforeDot(v) ELSE v
    IN  IF ~demo.present \/ g = << >> THEN [tgt \in keys |-> None]
        ELSE [ssn EXCEPT !["employee_zip"] = Zip(@), !["employer_zip"] = Zip(@)]

\* for k, v in p1_vals.items():
\*     f = field_map.get("part1", {}).get(k); if f: set_field(writer, f, v)
RECURSIVE FillPart1(_, _, _, _)
FillPart1(w, fieldmap, p1, k) ==
    IF k > Len(Part1Keys) THEN w
    ELSE LET p1map == IF "part1" \in DOMAIN fieldmap THEN fieldmap["part1"] ELSE << >>
             f == Get(p1map, Part1Keys[k])
         IN  FillPart1(IF Truthy(f) THEN set_field(w, f, p1[Part1Keys[k]]) ELSE w,
                       fieldmap, p1, k + 1)

\* if field_map.get("part2", {}).get("plan_start_month") and plan_start_month:
\*     set_field(writer, field_map["part2"]["plan_start_month"], plan_start_month)
FillPlanStart(w, fieldmap, plan_start_month) ==
    LET p2 == IF "part2" \in DOMAIN fieldmap THEN fieldmap["part2"] ELSE << >>
        f == Get(p2, "plan_start_month")
    IN  IF Truthy(f) /\ Truthy(plan_start_month)
        THEN set_field([w EXCEPT !.part = "part2"], f, plan_start_month)
        ELSE w

\* set_form_text(writer, field_name, value)   (interim_core): as set_field,
\* but for the test of the value.
set_form_text(w, field_name, value) ==
    IF field_name = << >> \/ field_name = None THEN w
    ELSE IF field_name \notin w.raising THEN Update(w, field_name, value)
    ELSE IF Strip(field_name) \notin w.raising THEN Update(w, Strip(field_name), value)
    ELSE w

\* if "part2" in fieldmap and "plan_start_month" in fieldmap["part2"]
\*    and plan_start_month: set_form_text(...)   (interim_core)
PlanStartText(w, fieldmap, plan_start_month) ==
    IF /\ "part2" \in DOMAIN fieldmap
       /\ "plan_start_month" \in DOMAIN fieldmap["part2"]
       /\ Truthy(plan_start_month)
    THEN set_form_text([w EXCEPT !.part = "part2"],
                       fieldmap["part2"]["plan_start_month"], plan_start_month)
    ELSE w

\* Statement order: first is carried out in full before next is begun.
After(first, next) == IF first = first THEN next ELSE next

\* What a call returns: a document (the filled form and the updates made),
\* or the message of the exception it raised.
Returned(w) == [ok |-> TRUE, form |-> w.form, writes |-> w.writes, error |-> ""]
Raised(msg) == [ok |-> FALSE, form |-> << >>, writes |-> << >>, error |-> msg]

NoMonthlyRows == "No monthly rows found for this employee."
MissingColumns == "Monthly summary missing required columns"
WriteFailed == "<writer.write raised>"

\* The columns the monthly summary must have.
req == {"Employee_ID", "Month", "line_14", "line_16"}

\* fill_one_employee(emp_id, pdf_template_bytes, field_map, demo_df,
\*                   monthly_summary_df, plan_start_month)   (pdf_filler_core)
\* summary is [present, columns, rows]; failing and unwritable are the PDF
\* library's behaviour: the field names on which an update raises and the
\* employees for whom writing the document out raises.
fill_one_employee(emp_id, template, fieldmap, demo, summary, plan_start_month, failing, unwritable) ==
    LET w0 == [form |-> template, writes |-> << >>, raising |-> failing, part |-> "part1"]
        w1 == FillPart1(w0, fieldmap, derive_part1_values(emp_id, demo), 1)
        block == BlockOf(summary.rows, emp_id)
        sorted == SortedBlock(block)
        w14 == fill_line_codes([w1 EXCEPT !.part = "line14"], fieldmap,
                               line_dict_from_block(sorted, "line_14"), "line14")
        w16 == fill_line_codes([w14 EXCEPT !.part = "line16"], fieldmap,
                               line_dict_from_block(sorted, "line_16"), "line16")
        w2 == IF summary.present /\ block # << >> THEN After(w14, w16) ELSE w1
        w3 == FillPlanStart(w2, fieldmap, plan_start_month)
    IN  IF summary.present /\ req \ summary.columns # {} THEN Raised(MissingColumns)
        ELSE IF emp_id \in unwritable THEN Raised(WriteFailed)
        ELSE After(w1, After(w2, Returned(w3)))

\* fill_one_employee_pdf_bytes(emp_id, monthly_summary, fieldmap,
\*                             pdf_template_path, plan_start_month)  (interim_core)
\* Part I is filled from derive_part1_values_from_demo_row(None), whose
\* values are all None, so fill_part1 writes nothing; its fill_line_codes
\* is that of pdf_filler_core with set_form_text for set_field, which
\* agree on the values written there (none is None).
fill_one_employee_pdf_bytes(emp_id, monthly_summary, fieldmap, template, plan_start_month, failing, unwritable) ==
    LET block == BlockOf(monthly_summary.rows, emp_id)
        sorted == SortedBlock(block)
        w0 == [form |-> template, writes |-> << >>, raising |-> failing, part |-> "part1"]
        w1 == PlanStartText(w0, fieldmap, plan_start_month)
        w2 == fill_line_codes([w1 EXCEPT !.part = "line14"], fieldmap,
                              line_dict_from_block(sorted, "line_14"), "line14")
        w3 == fill_line_codes([w2 EXCEPT !.part = "line16"], fieldmap,
                              line_dict_from_block(sorted, "line_16"), "line16")
    IN  IF block = << >> THEN Raised(NoMonthlyRows)
        ELSE IF emp_id \in unwritable THEN Raised(WriteFailed)
        ELSE After(w2, Returned(w3))

(***************************************************************************)
(* Inputs of the interim build                                             *)
(***************************************************************************)

\* Bounds of the model.
MaxEmp == 2     \* demographic rows
MaxRows == 2    \* eligibility rows, enrollment rows

\* A leap year and a common year.
Years == {2024, 2025}

Roles == {"FT", "PT", "TEMP"}

PlanB == <<"P", "l", "a", "n", "B">>
WaivedOptOut == <<"W", "a", "i", "v", "e", "d", " ", "-", " ", "O", "p", "t", " ", "O", "u", "t">>
WAIVER == <<"N", "O", " ", "W", "A", "I", "V", "E", "R">>
waived == <<"w", "a", "i", "v", "e", "d">>

EligPlans == {PlanA, PlanB, WAIVER, NaN}
EnrPlans == {PlanA, waived}
Tiers == {"EMP", "EMPFAM", "EMPSPOUSE", "EMPCHILD", TierNaN}

\* A demographics row; the name cells are missing unless given.
EmpRow(id, role, start, end) ==
    [EmployeeID |-> id, FirstName |-> NaN, MiddleInitial |-> NaN, LastName |-> NaN,
     Role |-> role, StatusStartDate |-> start, StatusEndDate |-> end]

EligRow(id, plan, tier, start, end) ==
    [EmployeeID |-> id, EligiblePlan |-> plan, EligibleTier |-> tier,
     EligibilityStartDate |-> start, EligibilityEndDate |-> end]

EnrRow(id, plan, tier, start, end) ==
    [EmployeeID |-> id, PlanCode |-> plan, Tier |-> tier,
     EnrollmentStartDate |-> start, EnrollmentEndDate |-> end]

\* The employee of the end-to-end scenario: full time, employed from
\* 1 January of the year, no end date.
Emp1001(y) == EmpRow(1001, "FT", Timestamp(y, 1, 1), NaT)

\* Status dates around the end of February.
StatusStarts(y) == {Timestamp(y, 1, 1), Timestamp(y, 2, 2)}
StatusEnds(y) == {Timestamp(y, 2, 28), Timestamp(y, 2, 28) + 1}

\* Interval dates: whole months, part of a month, missing, unparsable.
CoverStarts(y) ==
    {Timestamp(y, 1, 1), Timestamp(y, 3, 1), Timestamp(y, 3, 15), NaT, BadDate}
CoverEnds(y) == {Timestamp(y, 3, 15), Timestamp(y, 3, 31), NaT, BadDate}

\* None as a table (demo_df, monthly_summary_df).
NoTable == [present |-> FALSE, columns |-> {}, rows |-> << >>]

\* No PDF generation has been asked for.
GenIdle ==
    /\ gpc = "idle"
    /\ flow = "app"
    /\ ids = << >>
    /\ summary_df = NoTable
    /\ demo_df = NoTable
    /\ plan_start = None
    /\ write_fails = {}
    /\ gi = 1
    /\ files = << >>
    /\ errors = << >>
    /\ shown = << >>
    /\ p1_vals = << >>

\* The form filler is not running during the interim build.
FillIdle ==
    /\ fpc = "idle"
    /\ field_map = << >>
    /\ l14 = << >>
    /\ l16 = << >>
    /\ form = << >>
    /\ writes = << >>
    /\ raising = {}

\* Employment status: up to MaxEmp employees (ids 1001, 1002, ... in table
\* order) of every role, with status dates around month boundaries.
InitStatus ==
    /\ year \in Years
    /\ exclude_waived = TRUE
    /\ \E n \in 0 .. MaxEmp :
         \E role \in [1 .. n -> Roles] :
           \E start \in [1 .. n -> StatusStarts(year)] :
             \E end \in [1 .. n -> StatusEnds(year)] :
               demographic_df =
                   [k \in 1 .. n |-> EmpRow(1000 + k, role[k], start[k], end[k])]
    /\ eligibility_df = << >>
    /\ enrollment_df = << >>

\* Interval dates: one employee, one eligibility and one enrollment record,
\* every date cell drawn from whole-month, part-month, missing and
\* unparsable values; the eligibility plan is PlanA or a waived plan.
InitOverlap ==
    /\ year = 2025
    /\ exclude_waived = TRUE
    /\ \E start \in {Timestamp(year, 1, 1), BadDate}, end \in {NaT, BadDate} :
         demographic_df = <<EmpRow(1001, "FT", start, end)>>
    /\ \/ \E id \in {1001, 1002}, start \in CoverStarts(year), end \in CoverEnds(year) :
            eligibility_df = <<EligRow(id, PlanA, "EMPFAM", start, end)>>
       \/ eligibility_df =
            <<EligRow(1001, WaivedOptOut, "EMPFAM", Timestamp(year, 1, 1), NaT)>>
    /\ \E start \in CoverStarts(year), end \in CoverEnds(year) :
         enrollment_df = <<EnrRow(1001, PlanA, "EMP", start, end)>>

\* Eligibility classification: up to MaxRows records over every plan and tier.
InitEligibility ==
    /\ year = 2025
    /\ exclude_waived \in BOOLEAN
    /\ demographic_df = <<Emp1001(year)>>
    /\ \E n \in 0 .. MaxRows :
         \E plan \in [1 .. n -> EligPlans] :
           \E tier \in [1 .. n -> Tiers] :
             eligibility_df =
                 [k \in 1 .. n |->
                     EligRow(1001, plan[k], tier[k], Timestamp(year, 1, 1), NaT)]
    /\ enrollment_df = << >>

\* Enrollment classification: up to MaxRows records over every tier, the
\* first starting in January or in July, beside one eligibility record.
InitEnrollment ==
    /\ year = 2025
    /\ exclude_waived \in BOOLEAN
    /\ demographic_df = <<Emp1001(year)>>
    /\ eligibility_df = <<EligRow(1001, PlanA, "EMPSPOUSE", Timestamp(year, 1, 1), NaT)>>
    /\ \E n \in 0 .. MaxRows :
         \E plan \in [1 .. n -> EnrPlans] :
           \E tier \in [1 .. n -> Tiers] :
             \E start \in {Timestamp(year, 1, 1), Timestamp(year, 7, 1)} :
               enrollment_df =
                   [k \in 1 .. n |->
                       EnrRow(1001, plan[k], tier[k],
                              IF k = 1 THEN start ELSE Timestamp(year, 1, 1), NaT)]

\* Names: one employee whose name parts are missing, plain, or carry a
\* space of their own.
FirstNames == {NaN, <<"A", "l">>, <<"A", "l", " ">>}
MiddleInitials == {NaN, <<"B">>, <<" ">>}
LastNames == {NaN, <<"C", "y">>, <<" ", "C", "y">>}

InitNames ==
    /\ year = 2025
    /\ exclude_waived = TRUE
    /\ \E f \in FirstNames, mi \in MiddleInitials, l \in LastNames :
         demographic_df =
             <<[Emp1001(year) EXCEPT !.FirstName = f, !.MiddleInitial = mi,
                                     !.LastName = l]>>
    /\ eligibility_df = << >>
    /\ enrollment_df = << >>

Init ==
    /\ pc = "ready"
    /\ records = << >>
    /\ FillIdle
    /\ GenIdle
    /\ \/ InitStatus
       \/ InitOverlap
       \/ InitEligibility
       \/ InitEnrollment
       \/ InitNames

\* The "Build Interim" button: build_interim_from_excel on the uploaded
\* workbook with the sidebar's settings (one run of the script).
Build ==
    /\ pc = "ready"
    /\ records' = build_interim_from_excel(demographic_df, eligibility_df,
                                           enrollment_df, year, exclude_waived)
    /\ pc' = "built"
    /\ UNCHANGED <<year, exclude_waived, demographic_df, eligibility_df, enrollment_df>>
    /\ UNCHANGED fillVars
    /\ UNCHANGED genVars

Next == Build

Spec == Init /\ [][Next]_vars

(***************************************************************************)
(* Properties of the interim table                                         *)
(***************************************************************************)

\* The calendar as the properties read it: the first day of month m of
\* year y, and its last day (the day before the first of the next month).
FirstDayOfMonth(y, m) == Timestamp(y, m, 1)
LastDayOfMonth(y, m) ==
    IF m = 12 THEN Timestamp(y + 1, 1, 1) - 1 ELSE Timestamp(y, m + 1, 1) - 1

OnOrBefore(a, b) == a # NaT /\ b # NaT /\ a <= b

\* Row k of the table belongs to the employee at this position of the
\* demographics and to this month of the year.
RowEmpNo(k) == ((k - 1) \div 12) + 1
RowMonthNo(k) == ((k - 1) % 12) + 1

\* The tables after date coercion, and the rows left by the waived filter.
Demo == CoerceDemo(demographic_df)
Elig == CoerceElig(eligibility_df)
Enr == CoerceEnr(enrollment_df)
EligLabels == Range(EligKept(eligibility_df, exclude_waived))
EnrLabels == Range(EnrKept(enrollment_df, exclude_waived))

\* C1 as stated: a record is counted for an employee-month iff it carries
\* the employee's id, starts on or before the first day of the month and
\* ends on or after its last day (full-month containment).
C1_FullMonthContainment ==
    \A k \in DOMAIN records :
        LET first == FirstDayOfMonth(year, RowMonthNo(k))
            last == LastDayOfMonth(year, RowMonthNo(k))
        IN  /\ \A n \in EligLabels :
                 n \in Range(records[k].elig_rows) <=>
                    /\ Elig[n].EmployeeID = records[k].Employee_ID
                    /\ OnOrBefore(Elig[n].EligibilityStartDate, first)
                    /\ OnOrBefore(last, Elig[n].EligibilityEndDate)
            /\ \A n \in EnrLabels :
                 n \in Range(records[k].enroll_rows) <=>
                    /\ Enr[n].EmployeeID = records[k].Employee_ID
                    /\ OnOrBefore(Enr[n].EnrollmentStartDate, first)
                    /\ OnOrBefore(last, Enr[n].EnrollmentEndDate)

\* C1 amended: a record is counted for an employee-month iff it carries the
\* employee's id, starts on or before the LAST day of the month and ends on
\* or after its FIRST day (any overlap with the month; a record covering
\* only part of the month is counted).
C1_AnyOverlap ==
    \A k \in DOMAIN records :
        LET first == FirstDayOfMonth(year, RowMonthNo(k))
            last == LastDayOfMonth(year, RowMonthNo(k))
        IN  /\ \A n \in EligLabels :
                 n \in Range(records[k].elig_rows) <=>
                    /\ Elig[n].EmployeeID = records[k].Employee_ID
                    /\ OnOrBefore(Elig[n].EligibilityStartDate, last)
                    /\ OnOrBefore(first, Elig[n].EligibilityEndDate)
            /\ \A n \in EnrLabels :
                 n \in Range(records[k].enroll_rows) <=>
                    /\ Enr[n].EmployeeID = records[k].Employee_ID
                    /\ OnOrBefore(Enr[n].EnrollmentStartDate, last)
                    /\ OnOrBefore(first, Enr[n].EnrollmentEndDate)

\* C1 witness: a built table in which an eligibility record that starts
\* after the first day of a month is counted for that month, and another
\* month in which it is not counted.
C1_Witness ==
    /\ pc = "built"
    /\ \E k \in DOMAIN records : \E n \in Range(records[k].elig_rows) :
         /\ Elig[n].EligibilityStartDate > FirstDayOfMonth(year, RowMonthNo(k))
         /\ Elig[n].EligibilityStartDate <= LastDayOfMonth(year, RowMonthNo(k))
    /\ \E k \in DOMAIN records : records[k].elig_rows = << >>

\* C2: employed_full_month is Yes iff the status interval starts on or
\* before the first day of the month and ends on or after its last day;
\* full-time (part-time) is Yes iff employed and the role is FT (PT); so the
\* two are never both Yes, each implies employed, and any other role gives
\* No for both.
C2_EmploymentFlags ==
    \A k \in DOMAIN records :
        LET emp == Demo[RowEmpNo(k)]
            rec == records[k]
            employed ==
                /\ OnOrBefore(emp.StatusStartDate, FirstDayOfMonth(year, RowMonthNo(k)))
                /\ OnOrBefore(LastDayOfMonth(year, RowMonthNo(k)), emp.StatusEndDate)
        IN  /\ rec.Is_Employed_full_month = (IF employed THEN "Yes" ELSE "No")
            /\ rec.Is_full_time_full_month =
                  (IF employed /\ emp.Role = "FT" THEN "Yes" ELSE "No")
            /\ rec.Is_Part_time_full_month =
                  (IF employed /\ emp.Role = "PT" THEN "Yes" ELSE "No")
            /\ ~(rec.Is_full_time_full_month = "Yes" /\ rec.Is_Part_time_full_month = "Yes")
            /\ rec.Is_full_time_full_month = "Yes" => rec.Is_Employed_full_month = "Yes"
            /\ rec.Is_Part_time_full_month = "Yes" => rec.Is_Employed_full_month = "Yes"
            /\ emp.Role \notin {"FT", "PT"} =>
                  /\ rec.Is_full_time_full_month = "No"
                  /\ rec.Is_Part_time_full_month = "No"

\* C2 witness: in a leap year, an employee whose status ends on 29 February
\* is employed for the whole of February, and one whose status ends on
\* 28 February is not.
C2_Witness ==
    /\ pc = "built"
    /\ IsLeap(year)
    /\ \E k \in DOMAIN records :
         /\ RowMonthNo(k) = 2
         /\ Demo[RowEmpNo(k)].StatusEndDate = Timestamp(year, 2, 29)
         /\ records[k].Is_Employed_full_month = "Yes"
    /\ \E k \in DOMAIN records :
         /\ RowMonthNo(k) = 2
         /\ Demo[RowEmpNo(k)].StatusEndDate = Timestamp(year, 2, 28)
         /\ Demo[RowEmpNo(k)].StatusStartDate = Timestamp(year, 1, 1)
         /\ records[k].Is_Employed_full_month = "No"

\* The plan cells and tier cells of the eligibility records counted for
\* row k, and the tier cells of its counted enrollment records.
CountedPlans(k) == {eligibility_df[n].EligiblePlan : n \in Range(records[k].elig_rows)}
CountedTiers(k) == {eligibility_df[n].EligibleTier : n \in Range(records[k].elig_rows)}
CountedEnrTiers(k) == {enrollment_df[n].Tier : n \in Range(records[k].enroll_rows)}

\* C3: where at least one eligibility record is counted, eligible_mv is
\* true iff the pooled plan codes are exactly {PlanA} and the pooled tiers
\* meet {EMPFAM, EMP, EMPCHILD, EMPSPOUSE}; so a further counted record
\* with another plan code makes it false.
C3_MinimumValue ==
    \A k \in DOMAIN records :
        records[k].elig_rows # << >> =>
            /\ records[k].eligible_mv <=>
                  /\ CountedPlans(k) = {PlanA}
                  /\ CountedTiers(k) \cap {"EMPFAM", "EMP", "EMPCHILD", "EMPSPOUSE"} # {}
            /\ (\E p \in CountedPlans(k) : p # PlanA) => ~records[k].eligible_mv

\* C3 witness: two counted records, PlanA and another plan, give false; a
\* table whose counted records are all PlanA gives true.
C3_Witness ==
    /\ pc = "built"
    /\ \E k \in DOMAIN records :
         /\ Len(records[k].elig_rows) = 2
         /\ PlanA \in CountedPlans(k)
         /\ CountedPlans(k) # {PlanA}
         /\ CountedTiers(k) = {"EMP"}
         /\ ~records[k].eligible_mv

\* C4: over the pooled tiers of the counted eligibility records, and in the
\* same way over those of the counted enrollment records: the employee flag
\* is true iff the set meets {EMP, EMPFAM, EMPSPOUSE}, the spouse flag iff
\* it meets {EMPFAM, EMPSPOUSE}, the child flag iff EMPFAM is in it.
C4_TierFlags ==
    \A k \in DOMAIN records :
        LET rec == records[k]
            et == CountedTiers(k)
            nt == CountedEnrTiers(k)
        IN  /\ rec.employee_eligible <=> et \cap {"EMP", "EMPFAM", "EMPSPOUSE"} # {}
            /\ rec.spouse_eligible <=> et \cap {"EMPFAM", "EMPSPOUSE"} # {}
            /\ rec.child_eligible <=> "EMPFAM" \in et
            /\ rec.employee_enrolled <=> nt \cap {"EMP", "EMPFAM", "EMPSPOUSE"} # {}
            /\ rec.spouse_enrolled <=> nt \cap {"EMPFAM", "EMPSPOUSE"} # {}
            /\ rec.child_enrolled <=> "EMPFAM" \in nt

\* C4 witness: a row whose eligibility tiers are {EMPSPOUSE} (spouse true,
\* child false) and whose enrollment tiers hold EMPFAM beside EMPCHILD
\* (child true).
C4_Witness ==
    /\ pc = "built"
    /\ \E k \in DOMAIN records :
         /\ CountedTiers(k) = {"EMPSPOUSE"}
         /\ records[k].employee_eligible
         /\ records[k].spouse_eligible
         /\ ~records[k].child_eligible
         /\ CountedEnrTiers(k) = {"EMPFAM", "EMPCHILD"}
         /\ records[k].child_enrolled

\* The plan codes of the inputs that contain "waive" in some letter case.
WaivedCodes == {WaivedOptOut, WAIVER, waived}

\* The rows of a table whose plan code is not one of the waived codes.
WithoutWaivedElig(df) ==
    LET Kept(r) == r.EligiblePlan \notin WaivedCodes IN SelectSeq(df, Kept)
WithoutWaivedEnr(df) ==
    LET Kept(r) == r.PlanCode \notin WaivedCodes IN SelectSeq(df, Kept)

\* The ten flags of an interim row (the row without the loop's selections).
Flags(rec) ==
    [Employee_ID |-> rec.Employee_ID, Month |-> rec.Month,
     Is_Employed_full_month |-> rec.Is_Employed_full_month,
     Is_full_time_full_month |-> rec.Is_full_time_full_month,
     Is_Part_time_full_month |-> rec.Is_Part_time_full_month,
     eligible_mv |-> rec.eligible_mv,
     employee_eligible |-> rec.employee_eligible,
     spouse_eligible |-> rec.spouse_eligible,
     child_eligible |-> rec.child_eligible,
     employee_enrolled |-> rec.employee_enrolled,
     spouse_enrolled |-> rec.spouse_enrolled,
     child_enrolled |-> rec.child_enrolled]

FlagsOf(table) == [k \in DOMAIN table |-> Flags(table[k])]

\* C5: with exclude-waived enabled, no row whose plan code contains "Waive"
\* in any letter case is counted for any employee-month, and the table's
\* flags are those of the same input with these rows deleted; where every
\* eligibility row of the employee is such a row, the four eligibility
\* flags are false.
C5_WaivedExcluded ==
    (pc = "built" /\ exclude_waived) =>
        /\ \A k \in DOMAIN records :
             /\ \A n \in Range(records[k].elig_rows) :
                  eligibility_df[n].EligiblePlan \notin WaivedCodes
             /\ \A n \in Range(records[k].enroll_rows) :
                  enrollment_df[n].PlanCode \notin WaivedCodes
             /\ (\A n \in DOMAIN eligibility_df :
                    eligibility_df[n].EmployeeID = records[k].Employee_ID =>
                        eligibility_df[n].EligiblePlan \in WaivedCodes)
                  => /\ ~records[k].eligible_mv
                     /\ ~records[k].employee_eligible
                     /\ ~records[k].spouse_eligible
                     /\ ~records[k].child_eligible
        /\ FlagsOf(records) =
              FlagsOf(build_interim_from_excel(demographic_df,
                          WithoutWaivedElig(eligibility_df),
                          WithoutWaivedEnr(enrollment_df), year, FALSE))

\* C5 witness: exclude-waived is on, the employee's only eligibility row is
\* an upper-case waived plan with tier EMPFAM covering the whole year, and
\* the built rows carry no eligibility flag.
C5_Witness ==
    /\ pc = "built"
    /\ exclude_waived
    /\ Len(eligibility_df) = 1
    /\ eligibility_df[1].EligiblePlan = WAIVER
    /\ eligibility_df[1].EligibleTier = "EMPFAM"
    /\ Len(records) = 12
    /\ \A k \in DOMAIN records :
         ~records[k].employee_eligible /\ ~records[k].child_eligible

\* C6: the table has 12 rows per demographic row; row 12*(i-1)+j carries
\* the id of the i-th employee (table order) and the j-th month label,
\* January to December.
C6_RowOrder ==
    pc = "built" =>
        /\ Len(records) = 12 * Len(demographic_df)
        /\ \A i \in DOMAIN demographic_df : \A j \in 1 .. 12 :
             /\ records[12 * (i - 1) + j].Employee_ID = demographic_df[i].EmployeeID
             /\ records[12 * (i - 1) + j].Month =
                   <<"Jan", "Feb", "Mar", "Apr", "May", "Jun",
                     "Jul", "Aug", "Sep", "Oct", "Nov", "Dec">>[j]

\* C6 witness: a built table of two employees (24 rows).
C6_Witness ==
    /\ pc = "built"
    /\ Len(demographic_df) = 2
    /\ Len(records) = 24

\* The end-to-end scenario: one full-time employee with status from
\* 2025-01-01 and no end, one eligibility record PlanA/EMPFAM from
\* 2025-01-01 with no end, one enrollment record EMP for March 2025.
Scenario ==
    /\ year = 2025
    /\ demographic_df = <<EmpRow(1001, "FT", Timestamp(2025, 1, 1), NaT)>>
    /\ eligibility_df =
          <<EligRow(1001, PlanA, "EMPFAM", Timestamp(2025, 1, 1), NaT)>>
    /\ enrollment_df =
          <<EnrRow(1001, PlanA, "EMP", Timestamp(2025, 3, 1), Timestamp(2025, 3, 31))>>

\* C7: in the end-to-end scenario the table has 12 rows; every month shows
\* employed and full-time Yes and the four eligibility flags true; every
\* enrollment flag is false except employee_enrolled, true in March only.
C7_EndToEnd ==
    (pc = "built" /\ Scenario) =>
        /\ Len(records) = 12
        /\ \A m \in 1 .. 12 :
             /\ records[m].Is_Employed_full_month = "Yes"
             /\ records[m].Is_full_time_full_month = "Yes"
             /\ records[m].eligible_mv
             /\ records[m].employee_eligible
             /\ records[m].spouse_eligible
             /\ records[m].child_eligible
             /\ records[m].employee_enrolled <=> m = 3
             /\ ~records[m].spouse_enrolled
             /\ ~records[m].child_enrolled

\* C7 witness: the scenario, built.
C7_Witness == pc = "built" /\ Scenario /\ records # << >>

\* C10 as stated: a record with an unparsable start or end date is counted
\* for no month of any employee, and an employee whose status start or end
\* is unparsable is employed in no month.
C10_UnparsableNeverCounted ==
    \A k \in DOMAIN records :
        /\ \A n \in Range(records[k].elig_rows) :
             /\ eligibility_df[n].EligibilityStartDate # BadDate
             /\ eligibility_df[n].EligibilityEndDate # BadDate
        /\ \A n \in Range(records[k].enroll_rows) :
             /\ enrollment_df[n].EnrollmentStartDate # BadDate
             /\ enrollment_df[n].EnrollmentEndDate # BadDate
        /\ records[k].Is_Employed_full_month = "Yes" =>
             /\ demographic_df[RowEmpNo(k)].StatusStartDate # BadDate
             /\ demographic_df[RowEmpNo(k)].StatusEndDate # BadDate

\* Text s holds two spaces in a row, or begins or ends with a space.
DoubleSpace(s) == \E k \in 1 .. (Len(s) - 1) : s[k] = " " /\ s[k + 1] = " "
EdgeSpace(s) == s # << >> /\ (s[1] = " " \/ s[Len(s)] = " ")

\* C16 as stated: whatever the first name, middle initial and last name
\* (missing, or carrying leading or trailing spaces of their own), the
\* display name of every interim row has no two consecutive spaces and no
\* leading or trailing space.
C16_NameSingleSpaced ==
    \A k \in DOMAIN records :
        ~DoubleSpace(records[k].Name) /\ ~EdgeSpace(records[k].Name)

\* C17: in every interim row, child_eligible implies spouse_eligible,
\* spouse_eligible implies employee_eligible, child_enrolled implies
\* spouse_enrolled, and spouse_enrolled implies employee_enrolled.
C17_FlagImplications ==
    \A k \in DOMAIN records :
        /\ records[k].child_eligible => records[k].spouse_eligible
        /\ records[k].spouse_eligible => records[k].employee_eligible
        /\ records[k].child_enrolled => records[k].spouse_enrolled
        /\ records[k].spouse_enrolled => records[k].employee_enrolled

\* C17 witness: one table with a month whose enrollment is the employee's
\* alone, a later month with child, spouse and employee enrolled, and the
\* spouse eligible without the child.
C17_Witness ==
    /\ pc = "built"
    /\ \E k \in DOMAIN records :
         /\ records[k].employee_enrolled
         /\ ~records[k].spouse_enrolled
         /\ records[k].spouse_eligible
         /\ ~records[k].child_eligible
    /\ \E k \in DOMAIN records :
         /\ records[k].child_enrolled
         /\ records[k].spouse_enrolled
         /\ records[k].employee_enrolled
         /\ CountedEnrTiers(k) = {"EMP", "EMPFAM"}

(***************************************************************************)
(* Inputs and steps of the form filler                                     *)
(***************************************************************************)

\* Bound of the model: months whose code differs from the other months'.
MaxDeviations == 1

MonthSet == Range(MONTHS)

\* Line codes: absent, empty, whitespace only, and two IRS codes.
Codes == {None, << >>, <<" ">>, <<"1", "A">>, <<"1", "E">>}

RECURSIVE Deviate(_, _)
Deviate(maps, n) ==
    IF n = 0 THEN maps
    ELSE Deviate({[f EXCEPT ![m] = c] : f \in maps, m \in MonthSet, c \in Codes}, n - 1)

\* codes_by_month: one code in every month, but for up to MaxDeviations months.
CodeMaps == Deviate({[m \in MonthSet |-> c] : c \in Codes}, MaxDeviations)

Code2C == <<"2", "C">>
CodeMaps16 == {[m \in MonthSet |-> Code2C],
               [m \in MonthSet |-> IF m = "Jan" THEN None ELSE Code2C]}

Restrict(f, keys) == [k \in keys |-> f[k]]

\* Sections for line14: the full section; one without the "all" key; one
\* with "all", half of the months and an empty field name; none.
Sections14 ==
    {FIELD_MAP_line14,
     Restrict(FIELD_MAP_line14, MonthSet),
     [Restrict(FIELD_MAP_line14,
               {"all", "Jan", "Feb", "Mar", "Apr", "May", "June", "Dec"})
        EXCEPT !["Dec"] = << >>],
     << >>}

AllFields == Range(FIELD_MAP_line14) \cup Range(FIELD_MAP_line16)

\* Templates: every field of the map on page 0, or all but Line 14's
\* "all" field; the blank template's fields are empty.
Templates == {[f \in AllFields |-> << >>],
              [f \in AllFields \ {FIELD_MAP_line14["all"]} |-> << >>]}

\* The interim build is not running while a form is filled.
BuildIdle ==
    /\ pc = "idle"
    /\ year = 2025
    /\ exclude_waived = TRUE
    /\ demographic_df = << >>
    /\ eligibility_df = << >>
    /\ enrollment_df = << >>
    /\ records = << >>

InitFill ==
    /\ BuildIdle
    /\ GenIdle
    /\ fpc = "start"
    /\ l14 \in CodeMaps
    /\ l16 \in CodeMaps16
    /\ \E s14 \in Sections14 :
         field_map = [line14 |-> s14, line16 |-> FIELD_MAP_line16]
    /\ form \in Templates
    /\ writes = << >>
    /\ raising \in {{}, {FIELD_MAP_line14["Feb"]}}

Writer(part) == [form |-> form, writes |-> writes, raising |-> raising, part |-> part]

\* fill_line_codes(writer, field_map, l14, "line14")   (fill_one_employee)
FillLine14 ==
    /\ fpc = "start"
    /\ LET w == fill_line_codes(Writer("line14"), field_map, l14, "line14")
       IN  form' = w.form /\ writes' = w.writes
    /\ fpc' = "line14"
    /\ UNCHANGED <<field_map, l14, l16, raising>>
    /\ UNCHANGED interimVars
    /\ UNCHANGED genVars

\* fill_line_codes(writer, field_map, l16, "line16")   (fill_one_employee)
FillLine16 ==
    /\ fpc = "line14"
    /\ LET w == fill_line_codes(Writer("line16"), field_map, l16, "line16")
       IN  form' = w.form /\ writes' = w.writes
    /\ fpc' = "done"
    /\ UNCHANGED <<field_map, l14, l16, raising>>
    /\ UNCHANGED interimVars
    /\ UNCHANGED genVars

NextFill == FillLine14 \/ FillLine16

SpecFill == InitFill /\ [][NextFill]_vars

(***************************************************************************)
(* Properties of the form filler                                           *)
(***************************************************************************)

\* The updates made while filling one part, in order, without the tag.
WritesOf(part) ==
    LET In(e) == e.part = part
        sel == SelectSeq(writes, In)
    IN  [k \in DOMAIN sel |-> <<sel[k].field, sel[k].value>>]

\* Which line sections have been filled, and each line's codes.
Filled(which) ==
    \/ which = "line14" /\ fpc \in {"line14", "done"}
    \/ which = "line16" /\ fpc = "done"
CodesOf(which) == IF which = "line14" THEN l14 ELSE l16

\* A code is blank when absent, empty or whitespace only.
BlankCodes == {None, << >>, <<" ">>}

\* All twelve months carry one and the same non-blank code.
TwelveIdentical(codes) ==
    /\ codes["Jan"] \notin BlankCodes
    /\ \A m \in MonthSet : codes[m] = codes["Jan"]

\* The months a section maps to a field the writer accepts, in calendar
\* order (as indices of MONTHS).
MappedMonths(section) ==
    LET Mapped(k) ==
            /\ MONTHS[k] \in DOMAIN section
            /\ section[MONTHS[k]] # << >>
            /\ section[MONTHS[k]] \notin raising
    IN  SelectSeq([k \in 1 .. 12 |-> k], Mapped)

\* C8: for a line section with an "all" key whose twelve codes are one
\* identical non-blank code, the filler writes that code to the "all" field
\* and then the empty string to every mapped per-month field, and no
\* per-month field holds the code afterwards.
C8_AllTwelveCollapse ==
    \A which \in {"line14", "line16"} :
        LET section == field_map[which]
            codes == CodesOf(which)
            mm == MappedMonths(section)
        IN  (Filled(which) /\ "all" \in DOMAIN section /\ TwelveIdentical(codes)) =>
                /\ WritesOf(which) =
                      <<<<section["all"], codes["Jan"]>>>> \o
                      [k \in DOMAIN mm |-> <<section[MONTHS[mm[k]]], << >> >>]
                /\ section["all"] \in DOMAIN form => form[section["all"]] = codes["Jan"]
                /\ \A m \in DOMAIN section \ {"all"} :
                      section[m] \in DOMAIN form => form[section[m]] # codes["Jan"]

\* C8 witness: Line 14 filled from twelve codes 1A through the full section
\* onto the full template: the "all" field holds 1A, January's field is
\* empty, and thirteen updates were made.
C8_Witness ==
    /\ fpc = "line14"
    /\ raising = {}
    /\ field_map["line14"] = FIELD_MAP_line14
    /\ \A m \in MonthSet : l14[m] = <<"1", "A">>
    /\ FIELD_MAP_line14["all"] \in DOMAIN form
    /\ form[FIELD_MAP_line14["all"]] = <<"1", "A">>
    /\ form[FIELD_MAP_line14["Jan"]] = << >>
    /\ Len(writes) = 13

\* C9 as stated: when the twelve codes of a line are not twelve identical
\* non-blank values, every mapped per-month field is written with its
\* month's code, a blank code (absent, empty or whitespace only) being
\* written as the empty string.
C9_PerMonthBlankAsEmpty ==
    \A which \in {"line14", "line16"} :
        LET section == field_map[which]
            codes == CodesOf(which)
            mm == MappedMonths(section)
        IN  (Filled(which) /\ ~TwelveIdentical(codes)) =>
                WritesOf(which) =
                    [k \in DOMAIN mm |->
                        <<section[MONTHS[mm[k]]],
                          IF codes[MONTHS[mm[k]]] \in BlankCodes
                          THEN << >> ELSE codes[MONTHS[mm[k]]]>>]

(***************************************************************************)
(* PDF generation: the single-employee and the bulk handlers               *)
(***************************************************************************)

\* Bound of the model: the employees offered for generation.
MaxBulk == 2

EmpIds == {1000 + k : k \in 1 .. MaxBulk}

\* The ids of a set in ascending order (sorted(...)).
RECURSIVE Sorted(_)
Sorted(S) ==
    IF S = {} THEN << >>
    ELSE LET lo == CHOOSE x \in S : \A y \in S : x <= y
         IN  <<lo>> \o Sorted(S \ {lo})

\* StrftimeB[k] character by character: the month labels of the interim rows.
StrftimeBText ==
    <<<<"J", "a", "n">>,
      <<"F", "e", "b">>,
      <<"M", "a", "r">>,
      <<"A", "p", "r">>,
      <<"M", "a", "y">>,
      <<"J", "u", "n">>,
      <<"J", "u", "l">>,
      <<"A", "u", "g">>,
      <<"S", "e", "p">>,
      <<"O", "c", "t">>,
      <<"N", "o", "v">>,
      <<"D", "e", "c">>>>

SummaryRow(id, month, c14, c16) ==
    [Employee_ID |-> id, Month |-> month, line_14 |-> c14, line_16 |-> c16]

\* Twelve summary rows of one employee, labelled as the interim rows are.
SummaryBlock(id, c14, c16) ==
    [k \in 1 .. 12 |-> SummaryRow(id, StrftimeBText[k], c14, c16)]

RECURSIVE SummaryRows(_)
SummaryRows(idseq) ==
    IF idseq = << >> THEN << >>
    ELSE SummaryBlock(Head(idseq), <<"1", "A">>, Code2C) \o SummaryRows(Tail(idseq))

\* Monthly summaries holding the rows of some of the employees.
Summaries ==
    {[present |-> TRUE, columns |-> req, rows |-> SummaryRows(Sorted(S))] :
        S \in SUBSET EmpIds}

\* A summary without the line_16 column.
SummaryWithoutLine16 ==
    [present |-> TRUE, columns |-> req \ {"line_16"}, rows |-> SummaryRows(Sorted(EmpIds))]

\* [int(x) for x in pd.to_numeric(df["Employee_ID"]).dropna().unique()]:
\* the ids of the rows, each once, in order of first appearance.
RECURSIVE Unique(_, _)
Unique(rows, seen) ==
    IF rows = << >> THEN << >>
    ELSE IF Head(rows).Employee_ID \in seen THEN Unique(Tail(rows), seen)
         ELSE <<Head(rows).Employee_ID>> \o
              Unique(Tail(rows), seen \cup {Head(rows).Employee_ID})

\* The demographics re-read for Part I (app.py lines 67-76): one row per
\* employee; the SSN carries hyphens and a space, the ZIP code was read as
\* a number.
DemoPart1 ==
    [present |-> TRUE,
     columns |-> {"EmployeeID", "FirstName", "LastName", "SSN", "ZipCode"},
     rows |-> [k \in 1 .. MaxBulk |->
                 [EmployeeID |-> 1000 + k,
                  FirstName |-> <<"A", "n", "n">>,
                  LastName |-> <<"L", "e", "e">>,
                  SSN |-> <<"1", "-", "2", " ", "3">>,
                  ZipCode |-> <<"1", "2", ".", "0">>]]]

\* The blank template: every field of FIELD_MAP but the first-name field.
GenTemplate ==
    [f \in (AllFields \cup Range(FIELD_MAP_part1) \cup Range(FIELD_MAP_part2))
            \ {FIELD_MAP_part1["employee_first"]} |-> << >>]

\* The fields on which the PDF writer raises: none, or the last-name field
\* and Line 14's "all" field.
RaisingSets == {{}, {FIELD_MAP_part1["employee_last"], FIELD_MAP_line14["all"]}}

PlanStarts == {None, <<"0", "1">>}

\* What is common to every generation request.
GenCommon ==
    /\ BuildIdle
    /\ fpc = "idle"
    /\ l14 = << >>
    /\ l16 = << >>
    /\ writes = << >>
    /\ field_map = FIELD_MAP
    /\ form = GenTemplate
    /\ raising \in RaisingSets
    /\ plan_start \in PlanStarts
    /\ write_fails \in SUBSET EmpIds
    /\ gi = 1
    /\ files = << >>
    /\ errors = << >>
    /\ shown = << >>
    /\ p1_vals = << >>

\* app.py: the ids come from the interim table (sorted, each once), the
\* summary is a separate upload or absent; the single PDF is for one of
\* the ids.
InitApp ==
    /\ flow = "app"
    /\ demo_df = DemoPart1
    /\ summary_df \in Summaries \cup {NoTable, SummaryWithoutLine16}
    /\ \/ /\ gpc = "bulk"
          /\ \E S \in SUBSET EmpIds : ids = Sorted(S)
       \/ /\ gpc = "single"
          /\ \E id \in EmpIds : ids = <<id>>

\* interim_core.py: the summary is the interim table itself; bulk takes
\* its ids from it, single takes any id typed in.
InitOneFlow ==
    /\ flow = "one_flow"
    /\ demo_df = NoTable
    /\ summary_df \in Summaries
    /\ \/ /\ gpc = "bulk"
          /\ ids = Unique(summary_df.rows, {})
       \/ /\ gpc = "single"
          /\ \E id \in EmpIds : ids = <<id>>

InitGen == GenCommon /\ (InitApp \/ InitOneFlow)

\* One call of the flow's generator for employee id, the PDF writer
\* raising on the fields in failing.
GenerateWith(id, failing) ==
    IF flow = "app"
    THEN fill_one_employee(id, form, field_map, demo_df, summary_df,
                           plan_start, failing, write_fails)
    ELSE fill_one_employee_pdf_bytes(id, summary_df, field_map, form,
                                     plan_start, failing, write_fails)

Generate(id) == GenerateWith(id, raising)

\* A download (kind "pdf": doc is the document; kind "error": the marker
\* file ERROR_<id>.txt, doc.error its text) and a message on the page.
File(kind, id, doc) == [kind |-> kind, id |-> id, doc |-> doc]
Msg(kind, id, text, count) == [kind |-> kind, id |-> id, text |-> text, count |-> count]

\* "Generate Single PDF" (app.py 97-115; interim_core.py 412-435).
GenerateSingle ==
    /\ gpc = "single"
    /\ LET doc == Generate(ids[1])
       IN  IF doc.ok
           THEN /\ files' = <<File("pdf", ids[1], doc)>>
                /\ shown' = <<Msg("success", ids[1], "Generated PDF", 1)>>
           ELSE /\ files' = << >>
                /\ shown' = <<Msg("error", ids[1], doc.error, 0)>>
    /\ gpc' = "single_done"
    /\ UNCHANGED <<flow, ids, summary_df, demo_df, plan_start, write_fails, gi,
                   errors, p1_vals>>
    /\ UNCHANGED interimVars
    /\ UNCHANGED fillVars

\* One turn of the bulk loop (app.py 125-138; interim_core.py 454-465).
BulkStep ==
    /\ gpc = "bulk"
    /\ gi <= Len(ids)
    /\ LET doc == Generate(ids[gi])
       IN  IF doc.ok
           THEN /\ files' = Append(files, File("pdf", ids[gi], doc))
                /\ errors' = errors
           ELSE IF flow = "app"
                THEN /\ files' = Append(files, File("error", ids[gi], doc))
                     /\ errors' = errors
                ELSE /\ files' = files
                     /\ errors' = Append(errors, [id |-> ids[gi], text |-> doc.error])
    /\ gi' = gi + 1
    /\ UNCHANGED <<gpc, flow, ids, summary_df, demo_df, plan_start, write_fails,
                   shown, p1_vals>>
    /\ UNCHANGED interimVars
    /\ UNCHANGED fillVars

\* After the bulk loop (app.py 139-146; interim_core.py 447-449, 466-481).
BulkReport ==
    /\ gpc = "bulk"
    /\ gi > Len(ids)
    /\ shown' =
         IF flow = "app"
         THEN <<Msg("success", 0, "Bulk ZIP ready", Len(ids))>>
         ELSE IF ids = << >>
              THEN <<Msg("error", 0, "No valid Employee_ID values found.", 0)>>
              ELSE [k \in DOMAIN errors |->
                       Msg("warning", errors[k].id, errors[k].text, 0)]
                   \o <<Msg("success", 0, "Prepared PDF(s)", Len(ids) - Len(errors))>>
    /\ gpc' = "bulk_done"
    /\ UNCHANGED <<flow, ids, summary_df, demo_df, plan_start, write_fails, gi,
                   files, errors, p1_vals>>
    /\ UNCHANGED interimVars
    /\ UNCHANGED fillVars

NextGen == GenerateSingle \/ BulkStep \/ BulkReport

SpecGen == InitGen /\ [][NextGen]_vars

(***************************************************************************)
(* Properties of PDF generation                                            *)
(***************************************************************************)

\* The employees whose outcome is known: the one of the single request,
\* those the bulk loop has passed.
Attempted ==
    IF gpc = "single_done" THEN {ids[1]}
    ELSE IF gpc \in {"bulk", "bulk_done"} THEN {ids[k] : k \in 1 .. (gi - 1)}
    ELSE {}

\* The documents delivered for employee id, and the errors recorded for
\* it (marker files of the ZIP, entries of the errors list, the error
\* message of the single request).
DocsOf(id) == {k \in DOMAIN files : files[k].kind = "pdf" /\ files[k].id = id}
ErrorsOf(id) ==
    {<<"file", k>> : k \in {n \in DOMAIN files : files[n].kind = "error" /\ files[n].id = id}}
    \cup {<<"list", k>> : k \in {n \in DOMAIN errors : errors[n].id = id}}
    \cup {<<"shown", k>> : k \in {n \in DOMAIN shown :
                                    gpc = "single_done" /\ shown[n].kind = "error"
                                    /\ shown[n].id = id}}

\* C11 as stated: when a monthly summary is supplied (with its required
\* columns), an employee without rows in it gets no document: the request
\* for that employee ends in an error, in the single and in the bulk path.
C11_NoRowsIsError ==
    (summary_df.present /\ req \subseteq summary_df.columns) =>
        \A id \in Attempted :
            BlockOf(summary_df.rows, id) = << >> =>
                /\ DocsOf(id) = {}
                /\ ErrorsOf(id) # {}

\* The text recorded by an error entry.
ErrorText(e) ==
    IF e[1] = "file" THEN files[e[2]].doc.error
    ELSE IF e[1] = "list" THEN errors[e[2]].text
    ELSE shown[e[2]].text

\* C12 as stated: after bulk generation over ids, every employee has
\* exactly one outcome, a delivered document or an error recorded with the
\* employee's id and the message of the failure (so a failure stops no
\* later employee), and the success count reported equals the number of
\* documents generated, which is the number of ids less the errors.
C12_BulkIsolation ==
    gpc = "bulk_done" =>
        /\ \A k \in DOMAIN ids :
             /\ Cardinality(DocsOf(ids[k])) + Cardinality(ErrorsOf(ids[k])) = 1
             /\ \A e \in ErrorsOf(ids[k]) :
                  ~Generate(ids[k]).ok /\ ErrorText(e) = Generate(ids[k]).error
        /\ ids # << >> =>
             \E n \in DOMAIN shown :
                /\ shown[n].kind = "success"
                /\ shown[n].count = Cardinality({k \in DOMAIN files : files[k].kind = "pdf"})
                /\ shown[n].count =
                      Len(ids) - Cardinality(UNION {ErrorsOf(ids[k]) : k \in DOMAIN ids})

\* C13: failing field updates abort nothing and disturb no other field.
\* Against the same request with a PDF writer that never raises: a request
\* fails only if that one fails too, and with the same message; every
\* delivered document makes the same updates in the same order but for
\* those on the failing fields, holds the same value in every other field,
\* and leaves the failing fields as the template has them.
C13_FieldFailureSwallowed ==
    /\ \A id \in Attempted :
         \A e \in ErrorsOf(id) :
            ~GenerateWith(id, {}).ok /\ ErrorText(e) = GenerateWith(id, {}).error
    /\ \A k \in DOMAIN files :
         files[k].kind = "pdf" =>
            LET doc == files[k].doc
                ref == GenerateWith(files[k].id, {})
                Succeeds(u) == u.field \notin raising
            IN  /\ doc.ok /\ ref.ok
                /\ doc.writes = SelectSeq(ref.writes, Succeeds)
                /\ \A f \in DOMAIN form :
                     doc.form[f] = IF f \in raising THEN form[f] ELSE ref.form[f]

\* C13 witness: the writer raises on the last-name field and on Line 14's
\* "all" field; the delivered document holds the SSN, the ZIP code,
\* Line 16's code and the plan start month, all written after a failure,
\* and the two failing fields are as in the template.
C13_Witness ==
    /\ flow = "app"
    /\ raising # {}
    /\ \E k \in DOMAIN files :
         /\ files[k].kind = "pdf"
         /\ files[k].doc.form[FIELD_MAP_part1["employee_last"]] = << >>
         /\ files[k].doc.form[FIELD_MAP_line14["all"]] = << >>
         /\ files[k].doc.form[FIELD_MAP_part1["employee_ssn"]] = <<"1", "2", "3">>
         /\ files[k].doc.form[FIELD_MAP_part1["employee_zip"]] = <<"1", "2">>
         /\ files[k].doc.form[FIELD_MAP_line16["all"]] = Code2C
         /\ files[k].doc.form[FIELD_MAP_part2["plan_start_month"]] = <<"0", "1">>
         /\ Len(files[k].doc.writes) = 29

(***************************************************************************)
(* Part I values and the per-month code mappings, on their own             *)
(***************************************************************************)

\* Bounds of the model.
MaxDemoRows == 2    \* rows of the demographics read for Part I
MaxOdd == 1         \* summary rows whose month label is not the interim one

\* Cells of the demographics: missing, empty, blank, text, padded text.
NameCells == {NaN, << >>, <<" ">>, <<"A", "n", "n">>, <<" ", "B", "o", " ">>}
SsnCells == {NaN, <<"1", "-", "2", " ", "3">>}
ZipCells == {NaN, <<"1", "2", ".", "0">>}

DemoRows ==
    {[EmployeeID |-> id, FirstName |-> f, SSN |-> n, ZipCode |-> z] :
        id \in {1001, 1002}, f \in NameCells, n \in SsnCells, z \in ZipCells}

Part1Tables ==
    {[present |-> TRUE,
      columns |-> {"EmployeeID", "FirstName", "SSN", "ZipCode"},
      rows |-> rows] : rows \in UNION {[1 .. n -> DemoRows] : n \in 0 .. MaxDemoRows}}

\* The month label of summary row k: as the interim table writes it, the
\* same padded with spaces, the canonical spelling, and two labels that
\* are no alias of any month.
Labels(k) ==
    {<<" ">> \o StrftimeBText[k] \o <<" ">>, MonthText[k],
     StrftimeBText[k] \o <<".">>, <<"?">>}

RECURSIVE Relabel(_, _)
Relabel(blocks, n) ==
    IF n = 0 THEN blocks
    ELSE Relabel(blocks \cup
                 UNION {{[b EXCEPT ![k].Month = lab] : b \in blocks, lab \in Labels(k)} :
                           k \in 1 .. 12},
                 n - 1)

\* Twelve rows of employee 1001 in calendar order, one code in every month
\* or one month with another code, up to MaxOdd labels changed.
Blocks ==
    Relabel({SummaryBlock(1001, <<"1", "A">>, Code2C)}
            \cup {[SummaryBlock(1001, <<"1", "A">>, Code2C)
                     EXCEPT ![k].line_14 = <<"1", "E">>] : k \in {1, 6, 9}},
            MaxOdd)

Reverse(s) == [k \in DOMAIN s |-> s[Len(s) + 1 - k]]

\* Everything but the helper's own input is at rest.
DeriveCommon ==
    /\ BuildIdle
    /\ FillIdle
    /\ flow = "app"
    /\ ids = <<1001>>
    /\ plan_start = None
    /\ write_fails = {}
    /\ gi = 1
    /\ files = << >>
    /\ errors = << >>
    /\ shown = << >>
    /\ p1_vals = << >>

InitPart1 ==
    /\ gpc = "part1"
    /\ demo_df \in Part1Tables
    /\ summary_df = NoTable

InitMonths ==
    /\ gpc = "months"
    /\ demo_df = NoTable
    /\ \E b \in Blocks, rev \in BOOLEAN :
         summary_df = [present |-> TRUE, columns |-> req,
                       rows |-> IF rev THEN Reverse(b) ELSE b]

InitDerive == DeriveCommon /\ (InitPart1 \/ InitMonths)

\* p1_vals = derive_part1_values(emp_id, demo_df)   (fill_one_employee)
DerivePart1 ==
    /\ gpc = "part1"
    /\ p1_vals' = derive_part1_values(ids[1], demo_df)
    /\ gpc' = "part1_done"
    /\ UNCHANGED <<flow, ids, summary_df, demo_df, plan_start, write_fails, gi,
                   files, errors, shown>>
    /\ UNCHANGED interimVars
    /\ UNCHANGED fillVars

\* l14 = line_dict_from_block(block, "line_14"), l16 likewise, on the
\* employee's block, canonicalised and sorted   (fill_one_employee)
BuildLineDicts ==
    /\ gpc = "months"
    /\ LET block == SortedBlock(BlockOf(summary_df.rows, ids[1]))
       IN  /\ l14' = line_dict_from_block(block, "line_14")
           /\ l16' = line_dict_from_block(block, "line_16")
    /\ gpc' = "months_done"
    /\ UNCHANGED <<fpc, field_map, form, writes, raising>>
    /\ UNCHANGED <<flow, ids, summary_df, demo_df, plan_start, write_fails, gi,
                   files, errors, shown, p1_vals>>
    /\ UNCHANGED interimVars

NextDerive == DerivePart1 \/ BuildLineDicts

SpecDerive == InitDerive /\ [][NextDerive]_vars

(***************************************************************************)
(* Properties of Part I and of the per-month code mappings                 *)
(***************************************************************************)

\* The cells of a demographic column in the employee's rows, in row order.
CellsOf(column) ==
    LET Mine(r) == r.EmployeeID = ids[1]
        g == SelectSeq(demo_df.rows, Mine)
    IN  [k \in DOMAIN g |-> g[k][column]]

\* A cell is blank when missing, empty or whitespace only.
NonBlankCell(c) == c # NaN /\ Strip(c) # << >>

\* The form in which Part I carries a value: trimmed, an SSN without
\* hyphens and spaces, a ZIP code cut at the decimal point.
Part1Form(key, c) ==
    IF key = "employee_ssn" THEN RemoveAll(Strip(c), {"-", " "})
    ELSE IF key \in {"employee_zip", "employer_zip"} THEN BeforeDot(Strip(c))
    ELSE Strip(c)

\* C14 as stated: for every Part I column of the demographics, the value
\* derived is the first non-blank cell of the column among the employee's
\* rows (an empty or whitespace-only cell is passed over for a later
\* non-blank one), and None only when no row has a non-blank cell.
C14_FirstNonBlank ==
    gpc = "part1_done" =>
        \A key \in DOMAIN p1_vals :
            colmap[key] \in demo_df.columns =>
                LET nonblank == SelectSeq(CellsOf(colmap[key]), NonBlankCell)
                IN  p1_vals[key] =
                       IF nonblank = << >> THEN None ELSE Part1Form(key, nonblank[1])

\* The rows of the employee's block, and the months they are labelled
\* with: label lab names month k when, trimmed, it is an alias of it.
Block == BlockOf(summary_df.rows, ids[1])
Names(lab, k) == <<Strip(lab), MonthText[k]>> \in MONTH_ALIASES
Recognised(lab) == \E k \in 1 .. 12 : Names(lab, k)

\* C15 as stated: a row whose month label is not recognised by the alias
\* table is put in the January bucket: its code is the Jan entry of the
\* mapping.
C15_UnrecognisedToJan ==
    gpc = "months_done" =>
        \A n \in DOMAIN Block :
            ~Recognised(Block[n].Month) => l14["Jan"] = Block[n].line_14

\* C15 amended: a row whose month label is not recognised by the alias
\* table is put in no bucket: every entry of the mapping is the code of
\* the row labelled with that month, None when no row is labelled with it,
\* whatever the unrecognised rows carry (they only sort with January).
C15_UnrecognisedDropped ==
    gpc = "months_done" =>
        \A k \in 1 .. 12 :
            LET rows == {n \in DOMAIN Block : Names(Block[n].Month, k)}
            IN  /\ rows = {} => l14[MONTHS[k]] = None /\ l16[MONTHS[k]] = None
                /\ \A n \in rows :
                     /\ l14[MONTHS[k]] = Block[n].line_14
                     /\ l16[MONTHS[k]] = Block[n].line_16

\* C15 witness: June's row carries 1E under a label that is no alias;
\* in the mapping January keeps 1A and June has no code.
C15_Witness ==
    /\ gpc = "months_done"
    /\ \E n \in DOMAIN Block :
         /\ ~Recognised(Block[n].Month)
         /\ Block[n].line_14 = <<"1", "E">>
    /\ l14["Jan"] = <<"1", "A">>
    /\ l14["June"] = None

\* The block is labelled as the interim table labels its rows: twelve
\* rows, one for each of Jan, Feb, Mar, Apr, May, Jun, Jul, Aug, Sep, Oct,
\* Nov, Dec.
InterimLabelled ==
    /\ Len(Block) = 12
    /\ \A k \in 1 .. 12 :
         Cardinality({n \in DOMAIN Block : Block[n].Month = StrftimeBText[k]}) = 1

\* C18: from a block labelled as the interim table labels its rows, the
\* k-th canonical month's entry is the code of the row of the k-th interim
\* label, for both lines (no row is dropped or merged), and twelve
\* identical non-blank codes are found to be all-12-same.
C18_InterimLabelsFillAllMonths ==
    (gpc = "months_done" /\ InterimLabelled) =>
        /\ \A k \in 1 .. 12 : \A n \in DOMAIN Block :
             Block[n].Month = StrftimeBText[k] =>
                /\ l14[MONTHS[k]] = Block[n].line_14
                /\ l16[MONTHS[k]] = Block[n].line_16
        /\ (/\ Block[1].line_14 \notin BlankCodes
             /\ \A n \in DOMAIN Block : Block[n].line_14 = Block[1].line_14)
              => all_12_same(l14) = Block[1].line_14
        /\ all_12_same(l16) = Code2C

\* C18 witness: an interim-labelled block in December-to-January order
\* with 1A in every month; June, July and Sept hold 1A and the twelve
\* codes are found to be all-12-same.
C18_Witness ==
    /\ gpc = "months_done"
    /\ InterimLabelled
    /\ Block[1].Month = <<"D", "e", "c">>
    /\ l14["June"] = <<"1", "A">>
    /\ l14["July"] = <<"1", "A">>
    /\ l14["Sept"] = <<"1", "A">>
    /\ all_12_same(l14) = <<"1", "A">>

====
